---- MODULE Spec2Model ----
(***************************************************************************)
(* queuectl: a durable job queue on one SQLite store.  The model follows   *)
(* src/src/queuectl/{db,manager,worker,cli}.py.  Every SQL statement that  *)
(* is committed on its own is one atomic step; a Python function that      *)
(* issues several statements is several steps, with the function's local   *)
(* variables kept between them.                                            *)
(***************************************************************************)
EXTENDS Integers, FiniteSets, Sequences, TLC

\* ------------------------------------------------------------------ bounds
MaxTime == 4          \* the clock (seconds, the resolution of ISO_FMT) runs 0..MaxTime
MaxRetries == 1       \* payloads carry max_retries in 0..MaxRetries, or none

JobIds == {"j1", "j2"}               \* ids a caller may enqueue
Workers == {"w1", "w2"}              \* worker ids passed to run_worker
Retriers == {"r1", "r2"}             \* concurrent callers of dlq_retry
Commands == {"ok", "fail", "flaky"}  \* always exit 0 / never exit 0 / either

NULL == "NULL"                       \* SQL NULL, Python None

\* ------------------------------------------------------------------ state
VARIABLES
    jobs,      \* the jobs table: id -> row (DOMAIN jobs = the ids inserted)
    config,    \* the config table: key -> value (a string), or NULL when the key has no row
    now,       \* the wall clock, in whole seconds
    pc,        \* worker -> its position in run_worker
    row,       \* worker -> the row claim_job returned (process_job_row's argument)
    won,       \* worker -> the id its claim UPDATE transitioned in the current iteration
    rpc,       \* dlq_retry caller -> its position in dlq_retry
    rjob,      \* dlq_retry caller -> the job_id argument
    execs,     \* job -> executions whose exit code was written since its enqueue (history; frozen once dlq_retry rewrote it)
    claims,    \* job -> claim UPDATEs that transitioned it (history; saturates, frozen as execs)
    dlqd,      \* job -> a dlq_retry UPDATE has been written on it (history)
    raised,    \* the exception the latest call of enqueue_job or dlq_retry raised, NULL when it returned
    armed,     \* worker -> it was started when workers:stop was "1" and has not yet read the flag (history)
    echoed,    \* what the latest config command of the CLI printed: [cmd, key, value]
    fails      \* job -> executions that ended in failure since its enqueue or its last dlq_retry UPDATE (history)

vars == <<jobs, config, now, pc, row, won, rpc, rjob, execs, claims, dlqd, raised, armed, echoed, fails>>

\* ------------------------------------------------------------------ db.py
\* DEFAULT_CONFIG, seeded by init_db with INSERT OR IGNORE; "workers:stop" is not seeded.
DEFAULT_CONFIG ==
    [k \in {"backoff_base", "default_max_retries", "workers:stop"} |->
        CASE k = "backoff_base" -> "2"
          [] k = "default_max_retries" -> "3"
          [] OTHER -> NULL]

\* get_config(key, default): the row's value, or default when there is no row.
get_config(key, default) == IF config[key] = NULL THEN default ELSE config[key]

\* Python's int() on a config string: the strings it converts, and what it returns
\* for them; on every other string it raises.
IntStrings == {"0", "1", "2", "3"}

int(v) ==
    CASE v = "0" -> 0
      [] v = "1" -> 1
      [] v = "2" -> 2
      [] v = "3" -> 3

\* ------------------------------------------------------------------ worker.py helpers
\* _get_backoff_base: int(config value), 2 when int() raises.
get_backoff_base ==
    LET v == get_config("backoff_base", "2")
    IN  IF v \in IntStrings THEN int(v) ELSE 2

\* A stop test that compares the flag with a word it never holds.
should_stop_word == get_config("workers:stop", "0") = "true"

\* _should_stop: the flag is the string "1".
should_stop == get_config("workers:stop", "0") = "1"

\* A product where the code has a power.
PowLinear(b, k) == b * k

\* float(base) ** float(attempts), for the integers the model draws.
RECURSIVE Pow(_, _)
Pow(b, k) == IF k = 0 THEN 1 ELSE b * Pow(b, k - 1)

\* _iso_after_seconds(seconds): the clock plus seconds, in whole seconds.
iso_after_seconds(seconds) == now + seconds

\* execute_command: the exit codes a command can produce (a timeout or a launch
\* error is the nonzero sentinel, one more nonzero code).
ExitCodes(command) ==
    CASE command = "ok" -> {0}
      [] command = "fail" -> {1}
      [] OTHER -> {0, 1}

\* The subquery's WHERE clause without its state test.
EligibleAnyState(j, t) == jobs[j].available_at <= t

\* The WHERE clause of claim_job's subquery.  No statement of the program writes a
\* NULL available_at (enqueue, the retry write and dlq_retry all set a time), so the
\* "available_at IS NULL" alternative never decides.
Eligible(j, t) ==
    /\ jobs[j].state = "pending"
    /\ jobs[j].available_at <= t

\* The subquery ordered the other way: ORDER BY created_at DESC.
Newest(t) ==
    {j \in DOMAIN jobs :
        /\ Eligible(j, t)
        /\ \A k \in DOMAIN jobs : Eligible(k, t) => jobs[j].created_at >= jobs[k].created_at}

\* The subquery: ORDER BY created_at ASC LIMIT 1.  Rows with the same created_at
\* are in no defined order, so each of them may be the one selected.
Oldest(t) ==
    {j \in DOMAIN jobs :
        /\ Eligible(j, t)
        /\ \A k \in DOMAIN jobs : Eligible(k, t) => jobs[j].created_at <= jobs[k].created_at}

\* The read-back SELECT of claim_job: locked_by = worker_id AND state = 'processing'
\* ORDER BY updated_at DESC LIMIT 1, ties in no defined order.
ReadBackRows(w) ==
    LET mine == {j \in DOMAIN jobs : jobs[j].locked_by = w /\ jobs[j].state = "processing"}
    IN  {j \in mine : \A k \in mine : jobs[j].updated_at >= jobs[k].updated_at}

NoRow == [id |-> NULL, command |-> NULL, attempts |-> 0, max_retries |-> 0]

\* What process_job_row reads from the sqlite3.Row it is given.
RowOf(j) ==
    [id |-> j, command |-> jobs[j].command,
     attempts |-> jobs[j].attempts, max_retries |-> jobs[j].max_retries]

\* History counters stop once dlq_retry has rewritten the job.
Bump(f, j) == IF ~dlqd[j] THEN [f EXCEPT ![j] = @ + 1] ELSE f

\* ------------------------------------------------------------------ Init
Init ==
    /\ jobs = <<>>
    /\ config = DEFAULT_CONFIG
    /\ now = 0
    /\ pc = [w \in Workers |-> "down"]
    /\ row = [w \in Workers |-> NoRow]
    /\ won = [w \in Workers |-> NULL]
    /\ rpc = [r \in Retriers |-> "idle"]
    /\ rjob = [r \in Retriers |-> NULL]
    /\ execs = <<>>
    /\ claims = <<>>
    /\ dlqd = <<>>
    /\ raised = NULL
    /\ armed = [w \in Workers |-> FALSE]
    /\ echoed = [cmd |-> NULL, key |-> NULL, value |-> NULL]
    /\ fails = <<>>

\* The clock advances.
Tick ==
    /\ now < MaxTime
    /\ now' = now + 1
    /\ UNCHANGED <<jobs, config, pc, row, won, rpc, rjob, execs, claims, dlqd, raised, armed, echoed, fails>>

\* ------------------------------------------------------------------ manager.py
\* A default that ignores what the config table holds now.
get_default_max_retries_fixed == int(DEFAULT_CONFIG["default_max_retries"])

\* _get_default_max_retries: int(config value), 3 when int() raises.
get_default_max_retries ==
    LET v == get_config("default_max_retries", "3")
    IN  IF v \in IntStrings THEN int(v) ELSE 3

\* The values json.loads gives the fields of a payload: a str, an int, a float
\* (in tenths: Flt(15) is 1.5) and None.
Str(s) == [kind |-> "str", val |-> s]
Num(n) == [kind |-> "int", val |-> n]
Flt(t) == [kind |-> "float", val |-> t]
JsonNull == [kind |-> "null"]

\* str.strip() on the strings the model draws.
strip(s) ==
    CASE s = " " -> ""
      [] s = " j1" -> "j1"
      [] OTHER -> s

\* int(max_retries) raises: a str that is not the text of an integer.  It does
\* not raise on a float, nor on a str that is the text of an integer.
IntRaises(v) == v.kind = "str" /\ strip(v.val) \notin IntStrings

\* int(max_retries) where it does not raise: an int is itself, a float is
\* truncated toward zero, a str is parsed.
IntValue(v) ==
    CASE v.kind = "int" -> v.val
      [] v.kind = "float" -> IF v.val < 0 THEN 0 - ((0 - v.val) \div 10) ELSE v.val \div 10
      [] OTHER -> int(strip(v.val))

\* A payload d is a record of the fields its JSON object has; anything with a
\* kind is a JSON value that is not an object.
IsDict(d) == "kind" \notin DOMAIN d

\* d.get("max_retries") is None: the key is missing, or its value is null.
MaxRetriesIsNone(d) == "max_retries" \notin DOMAIN d \/ d.max_retries = JsonNull

\* validate_job_dict raises ValueError.
ValidationError(d) ==
    \/ ~IsDict(d)
    \/ "id" \notin DOMAIN d \/ d.id.kind # "str" \/ strip(d.id.val) = ""
    \/ "command" \notin DOMAIN d \/ d.command.kind # "str" \/ strip(d.command.val) = ""
    \/ /\ ~MaxRetriesIsNone(d)
       /\ \/ IntRaises(d.max_retries)
          \/ IntValue(d.max_retries) < 0

\* The id the row is inserted under.
job_id(d) == strip(d.id.val)

\* validate_job_dict where it returns: the normalized row.
validate_job_dict(d) ==
    [command |-> strip(d.command.val),
     state |-> "pending",
     attempts |-> 0,
     max_retries |-> IF MaxRetriesIsNone(d) THEN get_default_max_retries
                     ELSE IntValue(d.max_retries),
     created_at |-> now,
     updated_at |-> now,
     available_at |-> now,
     locked_by |-> NULL,
     last_error |-> NULL]

\* An enqueue whose INSERT replaces the row of an id already there (INSERT OR
\* REPLACE).
enqueue_job_replace(d) ==
    /\ IF ValidationError(d)
       THEN /\ raised' = "ValueError"
            /\ UNCHANGED <<jobs, execs, claims, dlqd, fails>>
       ELSE /\ jobs' = (job_id(d) :> validate_job_dict(d)) @@ jobs
            /\ execs' = (job_id(d) :> 0) @@ execs
            /\ fails' = (job_id(d) :> 0) @@ fails
            /\ claims' = (job_id(d) :> 0) @@ claims
            /\ dlqd' = (job_id(d) :> FALSE) @@ dlqd
            /\ raised' = NULL
    /\ UNCHANGED <<config, now, pc, row, won, rpc, rjob, armed, echoed>>

\* enqueue_job: validation, then the INSERT; a second insert of an id violates the
\* primary key and writes nothing.
enqueue_job(d) ==
    /\ IF ValidationError(d)
       THEN /\ raised' = "ValueError"
            /\ UNCHANGED <<jobs, execs, claims, dlqd, fails>>
       ELSE IF job_id(d) \in DOMAIN jobs
       THEN /\ raised' = "IntegrityError"
            /\ UNCHANGED <<jobs, execs, claims, dlqd, fails>>
       ELSE /\ jobs' = jobs @@ (job_id(d) :> validate_job_dict(d))
            /\ execs' = execs @@ (job_id(d) :> 0)
            /\ fails' = fails @@ (job_id(d) :> 0)
            /\ claims' = claims @@ (job_id(d) :> 0)
            /\ dlqd' = dlqd @@ (job_id(d) :> FALSE)
            /\ raised' = NULL
    /\ UNCHANGED <<config, now, pc, row, won, rpc, rjob, armed, echoed>>

\* A dlq_retry that tests only that the row exists.
DlqRetryReadAnyState(r, id) ==
    /\ rpc[r] = "idle"
    /\ IF id \notin DOMAIN jobs
       THEN /\ raised' = "not found"
            /\ UNCHANGED <<rpc, rjob>>
       ELSE /\ rpc' = [rpc EXCEPT ![r] = "checked"]
            /\ rjob' = [rjob EXCEPT ![r] = id]
            /\ UNCHANGED raised
    /\ UNCHANGED <<jobs, config, now, pc, row, won, execs, claims, dlqd, armed, echoed, fails>>

\* dlq_retry, first statement: SELECT the row; raise when it is missing or not dead.
DlqRetryRead(r, id) ==
    /\ rpc[r] = "idle"
    /\ IF id \notin DOMAIN jobs
       THEN /\ raised' = "not found"
            /\ UNCHANGED <<rpc, rjob>>
       ELSE IF jobs[id].state # "dead"
       THEN /\ raised' = "is not in DLQ"
            /\ UNCHANGED <<rpc, rjob>>
       ELSE /\ rpc' = [rpc EXCEPT ![r] = "checked"]
            /\ rjob' = [rjob EXCEPT ![r] = id]
            /\ UNCHANGED raised
    /\ UNCHANGED <<jobs, config, now, pc, row, won, execs, claims, dlqd, armed, echoed, fails>>

\* What a dlq_retry UPDATE leaves of attempts: the value it found.
DlqRetryWriteKeepsAttempts(r) ==
    /\ rpc[r] = "checked"
    /\ jobs' = [jobs EXCEPT ![rjob[r]] =
                   [@ EXCEPT !.state = "pending", !.available_at = now,
                             !.updated_at = now, !.last_error = NULL]]
    /\ dlqd' = [dlqd EXCEPT ![rjob[r]] = TRUE]
    /\ execs' = [execs EXCEPT ![rjob[r]] = 0]
    /\ fails' = [fails EXCEPT ![rjob[r]] = 0]
    /\ claims' = [claims EXCEPT ![rjob[r]] = 0]
    /\ rpc' = [rpc EXCEPT ![r] = "idle"]
    /\ rjob' = [rjob EXCEPT ![r] = NULL]
    /\ raised' = NULL
    /\ UNCHANGED <<config, now, pc, row, won, armed, echoed>>

\* dlq_retry, second statement: UPDATE ... WHERE id = ?, then commit and return.
DlqRetryWrite(r) ==
    /\ rpc[r] = "checked"
    /\ jobs' = [jobs EXCEPT ![rjob[r]] =
                   [@ EXCEPT !.state = "pending", !.attempts = 0, !.available_at = now,
                             !.updated_at = now, !.last_error = NULL]]
    /\ dlqd' = [dlqd EXCEPT ![rjob[r]] = TRUE]
    /\ execs' = [execs EXCEPT ![rjob[r]] = 0]
    /\ fails' = [fails EXCEPT ![rjob[r]] = 0]
    /\ claims' = [claims EXCEPT ![rjob[r]] = 0]
    /\ rpc' = [rpc EXCEPT ![r] = "idle"]
    /\ rjob' = [rjob EXCEPT ![r] = NULL]
    /\ raised' = NULL
    /\ UNCHANGED <<config, now, pc, row, won, armed, echoed>>

\* ------------------------------------------------------------------ worker.py
\* run_worker(worker_id) is called: the loop starts.
RunWorker(w) ==
    /\ pc[w] = "down"
    /\ pc' = [pc EXCEPT ![w] = "poll"]
    /\ armed' = [armed EXCEPT ![w] = should_stop]
    /\ UNCHANGED <<jobs, config, now, row, won, rpc, rjob, execs, claims, dlqd, raised, echoed, fails>>

\* A loop that does not break on the flag.
CheckStopIgnored(w) ==
    /\ pc[w] = "poll"
    /\ pc' = [pc EXCEPT ![w] = "claim"]
    /\ armed' = [armed EXCEPT ![w] = FALSE]
    /\ UNCHANGED <<jobs, config, now, row, won, rpc, rjob, execs, claims, dlqd, raised, echoed, fails>>

\* Top of the loop: _should_stop(); break when the flag is set.
CheckStop(w) ==
    /\ pc[w] = "poll"
    /\ pc' = [pc EXCEPT ![w] = IF should_stop THEN "down" ELSE "claim"]
    /\ armed' = [armed EXCEPT ![w] = FALSE]
    /\ UNCHANGED <<jobs, config, now, row, won, rpc, rjob, execs, claims, dlqd, raised, echoed, fails>>

\* A claim that does not test the state: it takes the oldest available row whatever
\* its state, as a SELECT followed by an unguarded UPDATE would.
ClaimJobUnguarded(w) ==
    /\ pc[w] = "claim"
    /\ \E j \in DOMAIN jobs :
            /\ jobs[j].available_at <= now
            /\ jobs[j].state \in {"pending", "processing"}
            /\ jobs' = [jobs EXCEPT ![j] =
                           [@ EXCEPT !.state = "processing", !.locked_by = w, !.updated_at = now]]
            /\ won' = [won EXCEPT ![w] = j]
            /\ claims' = Bump(claims, j)
            /\ pc' = [pc EXCEPT ![w] = "readback"]
    /\ UNCHANGED <<config, now, row, rpc, rjob, execs, dlqd, raised, armed, echoed, fails>>

\* claim_job, the UPDATE: one statement, so the subquery and the write are one step.
\* rowcount 0 returns None and the loop sleeps and starts over.
ClaimJob(w) ==
    /\ pc[w] = "claim"
    /\ IF Oldest(now) = {}
       THEN /\ pc' = [pc EXCEPT ![w] = "poll"]
            /\ UNCHANGED <<jobs, won, claims>>
       ELSE \E j \in Oldest(now) :
            IF jobs[j].state = "pending"
            THEN /\ jobs' = [jobs EXCEPT ![j] =
                                [@ EXCEPT !.state = "processing", !.locked_by = w,
                                          !.updated_at = now]]
                 /\ won' = [won EXCEPT ![w] = j]
                 /\ claims' = Bump(claims, j)
                 /\ pc' = [pc EXCEPT ![w] = "readback"]
            ELSE /\ pc' = [pc EXCEPT ![w] = "poll"]
                 /\ UNCHANGED <<jobs, won, claims>>
    /\ UNCHANGED <<config, now, row, rpc, rjob, execs, dlqd, raised, armed, echoed, fails>>

\* claim_job, the SELECT after the commit: the row it returns is the row
\* process_job_row gets; no row is None, and the loop sleeps and starts over.
ReadBack(w) ==
    /\ pc[w] = "readback"
    /\ IF ReadBackRows(w) = {}
       THEN /\ pc' = [pc EXCEPT ![w] = "poll"]
            /\ won' = [won EXCEPT ![w] = NULL]
            /\ UNCHANGED row
       ELSE \E j \in ReadBackRows(w) :
            /\ row' = [row EXCEPT ![w] = RowOf(j)]
            /\ pc' = [pc EXCEPT ![w] = "exec"]
            /\ UNCHANGED won
    /\ UNCHANGED <<jobs, config, now, rpc, rjob, execs, claims, dlqd, raised, armed, echoed, fails>>

\* The retry test off by one: dead as soon as attempts reaches max_retries.
ResultRowOffByOne(old, r, rc) ==
    LET attempts == r.attempts + 1
    IN  IF rc = 0
        THEN [old EXCEPT !.state = "completed", !.updated_at = now, !.last_error = NULL]
        ELSE IF attempts >= r.max_retries
        THEN [old EXCEPT !.state = "dead", !.attempts = attempts, !.updated_at = now,
                         !.last_error = "exitcode"]
        ELSE [old EXCEPT !.state = "pending", !.attempts = attempts,
                         !.available_at = iso_after_seconds(Pow(get_backoff_base, attempts)),
                         !.updated_at = now, !.last_error = "exitcode"]

\* The failure branch without "attempts += 1".
ResultRowNoIncrement(old, r, rc) ==
    LET attempts == r.attempts
    IN  IF rc = 0
        THEN [old EXCEPT !.state = "completed", !.updated_at = now, !.last_error = NULL]
        ELSE IF attempts > r.max_retries
        THEN [old EXCEPT !.state = "dead", !.attempts = attempts, !.updated_at = now,
                         !.last_error = "exitcode"]
        ELSE [old EXCEPT !.state = "pending", !.attempts = attempts,
                         !.available_at = iso_after_seconds(Pow(get_backoff_base, attempts)),
                         !.updated_at = now, !.last_error = "exitcode"]

\* The row process_job_row writes for exit code rc: UPDATE ... WHERE id = job_id.
ResultRow(old, r, rc) ==
    LET attempts == r.attempts + 1
    IN  IF rc = 0
        THEN [old EXCEPT !.state = "completed", !.updated_at = now, !.last_error = NULL]
        ELSE IF attempts > r.max_retries
        THEN [old EXCEPT !.state = "dead", !.attempts = attempts, !.updated_at = now,
                         !.last_error = "exitcode"]
        ELSE [old EXCEPT !.state = "pending", !.attempts = attempts,
                         !.available_at = iso_after_seconds(Pow(get_backoff_base, attempts)),
                         !.updated_at = now, !.last_error = "exitcode"]

\* process_job_row: the command ends with an exit code and the result is written.
ProcessJobRow(w) ==
    /\ pc[w] = "exec"
    /\ \E rc \in ExitCodes(row[w].command) :
           /\ jobs' = [jobs EXCEPT ![row[w].id] = ResultRow(@, row[w], rc)]
           /\ fails' = IF rc = 0 THEN fails ELSE [fails EXCEPT ![row[w].id] = @ + 1]
    /\ execs' = Bump(execs, row[w].id)
    /\ pc' = [pc EXCEPT ![w] = "poll"]
    /\ row' = [row EXCEPT ![w] = NoRow]
    /\ won' = [won EXCEPT ![w] = NULL]
    /\ UNCHANGED <<config, now, rpc, rjob, claims, dlqd, raised, armed, echoed>>

\* process_job_row's except branch: an exception inside the try block.
ProcessorFault(w) ==
    /\ pc[w] = "exec"
    /\ jobs' = [jobs EXCEPT ![row[w].id] =
                   [@ EXCEPT !.state = "failed", !.updated_at = now,
                             !.last_error = "processor-exception"]]
    /\ UNCHANGED execs
    /\ pc' = [pc EXCEPT ![w] = "poll"]
    /\ row' = [row EXCEPT ![w] = NoRow]
    /\ won' = [won EXCEPT ![w] = NULL]
    /\ UNCHANGED <<config, now, rpc, rjob, claims, dlqd, raised, armed, echoed, fails>>

\* The worker process is terminated (p.terminate() in start_worker_processes, or
\* any kill): its locals are gone, the store keeps what was committed.
Terminate(w) ==
    /\ pc[w] # "down"
    /\ pc' = [pc EXCEPT ![w] = "down"]
    /\ row' = [row EXCEPT ![w] = NoRow]
    /\ won' = [won EXCEPT ![w] = NULL]
    /\ armed' = [armed EXCEPT ![w] = FALSE]
    /\ UNCHANGED <<jobs, config, now, rpc, rjob, execs, claims, dlqd, raised, echoed, fails>>

\* run_worker's "except KeyboardInterrupt": an interrupt signal reaches the worker
\* process wherever it is (it is not an Exception, so process_job_row's handler
\* lets it through); the loop is left and nothing is written.
KeyboardInterrupt(w) ==
    /\ pc[w] # "down"
    /\ pc' = [pc EXCEPT ![w] = "down"]
    /\ row' = [row EXCEPT ![w] = NoRow]
    /\ won' = [won EXCEPT ![w] = NULL]
    /\ armed' = [armed EXCEPT ![w] = FALSE]
    /\ UNCHANGED <<jobs, config, now, rpc, rjob, execs, claims, dlqd, raised, echoed, fails>>

\* run_worker's "except Exception": a statement of the loop outside
\* process_job_row's try block raises (sqlite3 errors from get_config in
\* _should_stop, from claim_job's UPDATE or SELECT, from _get_job_timeout), or the
\* UPDATE of process_job_row's own except branch raises; the error is printed and
\* the loop is left.
StoreError(w) ==
    /\ pc[w] \in {"poll", "claim", "readback", "exec"}
    /\ pc' = [pc EXCEPT ![w] = "down"]
    /\ row' = [row EXCEPT ![w] = NoRow]
    /\ won' = [won EXCEPT ![w] = NULL]
    /\ armed' = [armed EXCEPT ![w] = FALSE]
    /\ UNCHANGED <<jobs, config, now, rpc, rjob, execs, claims, dlqd, raised, echoed, fails>>

\* set_config(key, value): the upsert.
set_config(key, value) ==
    /\ config' = [config EXCEPT ![key] = value]
    /\ UNCHANGED <<jobs, now, pc, row, won, rpc, rjob, execs, claims, dlqd, raised, armed, echoed, fails>>

\* cli.py config set: the command prints its arguments and returns; it opens no
\* connection to the store.
config_set(key, value) ==
    /\ echoed' = [cmd |-> "set", key |-> key, value |-> value]
    /\ UNCHANGED <<jobs, config, now, pc, row, won, rpc, rjob, execs, claims, dlqd, raised, armed, fails>>

\* cli.py config get: the command prints the key and returns; it reads nothing
\* from the store and prints no value.
config_get(key) ==
    /\ echoed' = [cmd |-> "get", key |-> key, value |-> NULL]
    /\ UNCHANGED <<jobs, config, now, pc, row, won, rpc, rjob, execs, claims, dlqd, raised, armed, fails>>

\* cli.py worker stop.
worker_stop == set_config("workers:stop", "1")

\* worker.py start_worker_processes: the stop flag is cleared, then the worker
\* processes ws (count = the size of ws) are spawned.  Spawning touches nothing in
\* the store and a spawned worker's first statement is its own step, so the two are
\* one step here.
start_worker_processes(ws) ==
    /\ \A w \in ws : pc[w] = "down"
    /\ config' = [config EXCEPT !["workers:stop"] = "0"]
    /\ pc' = [w \in Workers |-> IF w \in ws THEN "poll" ELSE pc[w]]
    /\ armed' = [w \in Workers |-> IF w \in ws THEN should_stop ELSE armed[w]]
    /\ UNCHANGED <<jobs, now, row, won, rpc, rjob, execs, claims, dlqd, raised, echoed, fails>>

\* start_worker_processes, interrupted while it waits for its workers: the stop
\* flag is set (the stragglers it terminates after the grace period are Terminate
\* steps).
start_interrupted == set_config("workers:stop", "1")

\* ------------------------------------------------------------------ the system
\* The well-formed payloads callers enqueue: with max_retries and without.
Payloads ==
    [id : {Str(j) : j \in JobIds}, command : {Str(c) : c \in Commands},
     max_retries : {Num(n) : n \in 0..MaxRetries}]
        \cup [id : {Str(j) : j \in JobIds}, command : {Str(c) : c \in Commands}]

\* The calls of enqueue_job and dlq_retry that return.  A call that raises writes
\* nothing to the store; those calls are the subject of SpecApi.
Returns(d) == ~ValidationError(d) /\ job_id(d) \notin DOMAIN jobs
InDlq(id) == id \in DOMAIN jobs /\ jobs[id].state = "dead"

\* One step of a worker process.
WorkerLoop(w) ==
    \/ CheckStop(w)
    \/ ClaimJob(w)
    \/ ReadBack(w)
    \/ ProcessJobRow(w)

\* Spec: the life of one job (every payload for id "j1") under concurrent workers,
\* concurrent dlq_retry callers, processor faults, terminated and restarted workers
\* and the stop flag.
Next ==
    \/ Tick
    \/ \E d \in Payloads : d.id = Str("j1") /\ Returns(d) /\ enqueue_job(d)
    \/ \E r \in Retriers, id \in JobIds : InDlq(id) /\ DlqRetryRead(r, id)
    \/ \E r \in Retriers : DlqRetryWrite(r)
    \/ \E w \in Workers : RunWorker(w)
    \/ \E w \in Workers : WorkerLoop(w)
    \/ \E w \in Workers : ProcessorFault(w)
    \/ \E w \in Workers : Terminate(w)
    \/ worker_stop
    \/ \E ws \in SUBSET Workers : start_worker_processes(ws)

Spec == Init /\ [][Next]_vars

\* SpecQueue: several jobs in the queue at once (commands that always succeed or
\* always fail, no retries), concurrent workers that may be terminated and restarted.
NextQueue ==
    \/ Tick
    \/ \E d \in Payloads :
          /\ d.command \in {Str("ok"), Str("fail")}
          /\ "max_retries" \in DOMAIN d /\ d.max_retries = Num(0)
          /\ Returns(d) /\ enqueue_job(d)
    \/ \E w \in Workers : RunWorker(w)
    \/ \E w \in Workers : WorkerLoop(w)
    \/ \E w \in Workers : Terminate(w)

SpecQueue == Init /\ [][NextQueue]_vars
\* SpecFair: the run of Test 3.  Always-succeeding jobs (enqueued as the test does,
\* without max_retries), every worker started and running its loop, the stop flag
\* never set, no worker terminated.  A started worker process keeps running (weak
\* fairness on each worker's steps).
NextFair ==
    \/ Tick
    \/ \E d \in Payloads :
          /\ d.command = Str("ok") /\ "max_retries" \notin DOMAIN d
          /\ Returns(d) /\ enqueue_job(d)
    \/ \E w \in Workers : RunWorker(w)
    \/ \E w \in Workers : WorkerLoop(w)

SpecFair ==
    /\ Init
    /\ [][NextFair]_vars
    /\ \A w \in Workers : WF_vars(RunWorker(w)) /\ WF_vars(WorkerLoop(w))

\* SpecBackoff: one job and its retries while backoff_base is rewritten in the store.
NextBackoff ==
    \/ Tick
    \/ \E d \in Payloads :
          d.id = Str("j1") /\ d.command # Str("ok") /\ Returns(d) /\ enqueue_job(d)
    \/ \E v \in {"1", "3", "x"} : set_config("backoff_base", v)
    \/ \E w \in Workers : RunWorker(w)
    \/ \E w \in Workers : WorkerLoop(w)
    \/ \E r \in Retriers, id \in JobIds : InDlq(id) /\ DlqRetryRead(r, id)
    \/ \E r \in Retriers : DlqRetryWrite(r)

SpecBackoff == Init /\ [][NextBackoff]_vars

\* SpecApi: the calls of manager.py with every kind of argument, those that raise
\* included: payloads that are not an object, that lack a field or carry a value
\* of another type, duplicate ids, dlq_retry of unknown ids and of jobs in every
\* state; one caller at a time, while a worker (and its processor faults) takes the
\* job through its states.
JsonIds == {Str("j1"), Str(" j1"), Str(""), Str(" "), Num(7)}
JsonCommands == {Str("ok"), Str("fail"), Str(""), Num(7)}
JsonMaxRetries ==
    {Num(n) : n \in -1..MaxRetries} \cup {Flt(15), Flt(-5), Str("1"), Str("x"), JsonNull}

JsonPayloads ==
    [id : JsonIds, command : JsonCommands, max_retries : JsonMaxRetries]
        \cup [id : JsonIds, command : JsonCommands]
        \cup [id : JsonIds]
        \cup [command : JsonCommands]
        \cup {Num(7)}

NextApi ==
    \/ Tick
    \/ \E d \in JsonPayloads : enqueue_job(d)
    \/ \E id \in JobIds : DlqRetryRead("r1", id)
    \/ DlqRetryWrite("r1")
    \/ RunWorker("w1")
    \/ WorkerLoop("w1")
    \/ ProcessorFault("w1")

SpecApi == Init /\ [][NextApi]_vars

\* The payloads of the stop and fault scenarios: every payload for one id.
OneJob == {d \in Payloads : d.id = Str("j1")}

\* SpecStop: workers started by run_worker, and "worker stop"; the flag is never
\* cleared, no worker is killed.  A running worker process keeps running, and its
\* command ends (weak fairness on each worker's loop).
NextStop ==
    \/ Tick
    \/ \E d \in OneJob : Returns(d) /\ enqueue_job(d)
    \/ \E w \in Workers : RunWorker(w)
    \/ \E w \in Workers : WorkerLoop(w)
    \/ worker_stop

SpecStop ==
    /\ Init
    /\ [][NextStop]_vars
    /\ \A w \in Workers : WF_vars(WorkerLoop(w))

\* SpecStart: the life of "worker start".  It clears the flag and spawns its
\* workers; it may be interrupted, and then sets the flag and, after the grace
\* period, terminates the workers still alive; an interrupt may reach a worker
\* process too; other workers are started by run_worker.  Running workers keep
\* running (weak fairness on each worker's loop).
NextStart ==
    \/ Tick
    \/ \E d \in OneJob : Returns(d) /\ enqueue_job(d)
    \/ \E ws \in SUBSET Workers : start_worker_processes(ws)
    \/ \E w \in Workers : RunWorker(w)
    \/ \E w \in Workers : WorkerLoop(w)
    \/ start_interrupted
    \/ \E w \in Workers : should_stop /\ Terminate(w)
    \/ \E w \in Workers : KeyboardInterrupt(w)

SpecStart ==
    /\ Init
    /\ [][NextStart]_vars
    /\ \A w \in Workers : WF_vars(WorkerLoop(w))

\* The payloads for j1 that leave max_retries out.
Defaulted == {d \in OneJob : "max_retries" \notin DOMAIN d}

\* The tunables the config commands are given, and the values given for them.
Tunables == {"default_max_retries", "backoff_base"}
TunableValues == {"0", "2", "x"}

\* SpecConfig: one worker and one dlq_retry caller on a job whose payload leaves
\* max_retries out, while default_max_retries is rewritten through the store's
\* set_config (as tests/run_tests.py does); enqueue is called whether or not the
\* id is taken.
NextConfig ==
    \/ Tick
    \/ \E d \in Defaulted : enqueue_job(d)
    \/ \E v \in TunableValues : set_config("default_max_retries", v)
    \/ RunWorker("w1")
    \/ WorkerLoop("w1")
    \/ ProcessorFault("w1")
    \/ \E id \in JobIds : InDlq(id) /\ DlqRetryRead("r1", id)
    \/ DlqRetryWrite("r1")

SpecConfig == Init /\ [][NextConfig]_vars

\* SpecCli: the config commands of the CLI, run beside one worker and a job whose
\* payload leaves max_retries out.
NextCli ==
    \/ Tick
    \/ \E d \in Defaulted : Returns(d) /\ enqueue_job(d)
    \/ \E k \in Tunables, v \in TunableValues : config_set(k, v)
    \/ \E k \in Tunables : config_get(k)
    \/ RunWorker("w1")
    \/ WorkerLoop("w1")

SpecCli == Init /\ [][NextCli]_vars

\* SpecFaults: workers whose store accesses may raise.
NextFaults ==
    \/ Tick
    \/ \E d \in OneJob : Returns(d) /\ enqueue_job(d)
    \/ \E w \in Workers : RunWorker(w)
    \/ \E w \in Workers : WorkerLoop(w)
    \/ \E w \in Workers : ProcessorFault(w)
    \/ \E w \in Workers : StoreError(w)

SpecFaults == Init /\ [][NextFaults]_vars

\* ------------------------------------------------------------------ claims
\* A step in which worker w's claim UPDATE touched a row (rowcount 1).
Claimed(w) == pc[w] = "claim" /\ pc'[w] = "readback"

\* C1. Claim exclusivity: every claim_job call that transitions a row transitions
\* exactly one row, that row was pending and is now processing and bound to the
\* caller, and every pending -> processing transition of a job is the work of exactly
\* one call; the other concurrent calls transition another job, or none.
ClaimExclusivity ==
    [][ /\ \A w \in Workers : Claimed(w) =>
              \E j \in DOMAIN jobs :
                  /\ won'[w] = j
                  /\ jobs[j].state = "pending"
                  /\ jobs'[j].state = "processing"
                  /\ jobs'[j].locked_by = w
                  /\ \A k \in DOMAIN jobs \ {j} : jobs'[k] = jobs[k]
        /\ \A j \in DOMAIN jobs :
              (jobs[j].state = "pending" /\ jobs'[j].state = "processing") =>
                  Cardinality({w \in Workers : Claimed(w) /\ won'[w] = j}) = 1
      ]_vars

\* Two calls raced for the queue: each has transitioned a job, and not the same one.
ClaimExclusivityWitness ==
    /\ pc["w1"] = "readback" /\ pc["w2"] = "readback"
    /\ won["w1"] = "j1" /\ won["w2"] = "j2"
    /\ jobs["j1"].updated_at = jobs["j2"].updated_at

\* The workers holding job j: past the claim that transitioned j, before the write
\* of its result.
Holders(j) ==
    {w \in Workers : \/ pc[w] = "readback" /\ won[w] = j
                     \/ pc[w] = "exec" /\ row[w].id = j}

\* C2. In every reachable state at most one worker holds a given job.
AtMostOneHolder == \A j \in DOMAIN jobs : Cardinality(Holders(j)) <= 1
\* C3. Terminal convergence: a job whose command fails on every execution, and on
\* which no dlq_retry has been written, is executed at most max_retries + 1 times; it
\* is dead exactly when it has been executed max_retries + 1 times, and then its
\* attempts is max_retries + 1.
TerminalConvergence ==
    \A j \in DOMAIN jobs :
        (jobs[j].command = "fail" /\ ~dlqd[j]) =>
            /\ execs[j] <= jobs[j].max_retries + 1
            /\ jobs[j].state = "dead" <=> execs[j] = jobs[j].max_retries + 1
            /\ jobs[j].state = "dead" => jobs[j].attempts = jobs[j].max_retries + 1

\* An always-failing job with one retry is dead after its second execution.
TerminalConvergenceWitness ==
    \E j \in DOMAIN jobs :
        /\ jobs[j].command = "fail" /\ ~dlqd[j]
        /\ jobs[j].max_retries = 1
        /\ jobs[j].state = "dead" /\ execs[j] = 2 /\ jobs[j].attempts = 2

\* C4. Idempotent completion: a completed job stays completed in every step.
CompletedIsFinal ==
    [][\A j \in DOMAIN jobs : jobs[j].state = "completed" => jobs'[j].state = "completed"]_vars

\* A step in which dlq_retry caller r writes its UPDATE.
DlqWrites(r) == rpc[r] = "checked" /\ rpc'[r] = "idle"

\* C6. dlq_retry is atomic: the job it rewrites is dead at the moment of the write.
DlqRetryAtomic ==
    [][\A r \in Retriers : DlqWrites(r) => jobs[rjob[r]].state = "dead"]_vars

\* C9. Every dead job has attempts > max_retries.
DeadExceedsRetries ==
    \A j \in DOMAIN jobs : jobs[j].state = "dead" => jobs[j].attempts > jobs[j].max_retries

\* A job is dead again after a dlq_retry put it back in the queue.
DeadExceedsRetriesWitness ==
    \E j \in DOMAIN jobs : jobs[j].state = "dead" /\ dlqd[j] /\ jobs[j].max_retries = 1

\* C10. attempts never decreases in a step, except in a dlq_retry write that sets it
\* to 0 together with state pending.
AttemptsMonotone ==
    [][\A j \in DOMAIN jobs :
          \/ jobs'[j].attempts >= jobs[j].attempts
          \/ /\ \E r \in Retriers : DlqWrites(r) /\ rjob[r] = j
             /\ jobs'[j].attempts = 0
             /\ jobs'[j].state = "pending"
      ]_vars
\* C5. With always-succeeding jobs and fairly running workers, every enqueued job
\* is eventually completed, and every job is claimed exactly once: never twice, and
\* once by the time it is completed.
AllCompletedClaimedOnce ==
    /\ \A j \in JobIds :
          (j \in DOMAIN jobs) ~> (j \in DOMAIN jobs /\ jobs[j].state = "completed")
    /\ [](\A j \in DOMAIN jobs :
             /\ claims[j] <= 1
             /\ jobs[j].state = "completed" => claims[j] = 1)

\* Both jobs are completed, each claimed once, one by each worker.
AllCompletedClaimedOnceWitness ==
    /\ DOMAIN jobs = JobIds
    /\ \A j \in JobIds : jobs[j].state = "completed" /\ claims[j] = 1
    /\ jobs["j1"].locked_by = "w1" /\ jobs["j2"].locked_by = "w2"

\* The pending jobs a claim at time t may take.
PendingAt(t) == {j \in DOMAIN jobs : jobs[j].state = "pending" /\ jobs[j].available_at <= t}

Power(b, k) ==
    CASE k = 1 -> b
      [] k = 2 -> b * b
      [] k = 3 -> b * b * b
      [] OTHER -> b * b * b * b

\* A step in which worker w writes the result of a failed execution.
FailureWritten(w) ==
    /\ pc[w] = "exec" /\ pc'[w] = "poll"
    /\ jobs'[row[w].id].last_error = "exitcode"

\* C8. Backoff and eligibility: a failure whose incremented attempts k is at most
\* max_retries puts the job back in pending with attempts k and available_at = the
\* time of the write + b^k, b being the integer in backoff_base at that moment (2 when
\* the key has no row); and a claim never takes a job whose available_at is later
\* than the time of the claim.
BackoffAndEligibility ==
    [][ /\ \A w \in Workers :
              (FailureWritten(w) /\ row[w].attempts + 1 <= row[w].max_retries) =>
                  LET j == row[w].id
                      k == row[w].attempts + 1
                      v == IF config["backoff_base"] = NULL THEN "2" ELSE config["backoff_base"]
                  IN  /\ jobs'[j].state = "pending"
                      /\ jobs'[j].attempts = k
                      /\ v \in IntStrings => jobs'[j].available_at = now + Power(int(v), k)
        /\ \A w \in Workers : Claimed(w) => jobs[won'[w]].available_at <= now
      ]_vars

\* A job failed for the second time while backoff_base was "3": it waits 9 seconds.
BackoffAndEligibilityWitness ==
    /\ config["backoff_base"] = "3"
    /\ \E j \in DOMAIN jobs :
          /\ jobs[j].state = "pending" /\ jobs[j].attempts = 2
          /\ jobs[j].available_at = jobs[j].updated_at + 9

\* C11. locked_by follows the state: a processing job is bound to a worker, and a
\* job in any other state (pending, completed, failed, dead) has locked_by unset,
\* after a result write and after dlq_retry too.
LockedByFollowsState ==
    \A j \in DOMAIN jobs :
        IF jobs[j].state = "processing"
        THEN jobs[j].locked_by \in Workers
        ELSE jobs[j].locked_by = NULL

\* C12. DLQ round-trip: the UPDATE of a dlq_retry on a dead job leaves the job
\* pending with attempts 0, last_error unset and available_at = the time of the
\* write, keeps its id, command and max_retries (and every other row), and the job
\* is eligible for a claim from that moment on.
DlqRoundTrip ==
    [][\A r \in Retriers :
          (DlqWrites(r) /\ jobs[rjob[r]].state = "dead") =>
              LET j == rjob[r]
              IN  /\ DOMAIN jobs' = DOMAIN jobs
                  /\ jobs'[j].state = "pending"
                  /\ jobs'[j].attempts = 0
                  /\ jobs'[j].last_error = NULL
                  /\ jobs'[j].available_at = now
                  /\ jobs'[j].command = jobs[j].command
                  /\ jobs'[j].max_retries = jobs[j].max_retries
                  /\ \A k \in DOMAIN jobs \ {j} : jobs'[k] = jobs[k]
                  /\ j \in PendingAt(now)'
      ]_vars

\* A job that was dead with attempts 2 is back in the queue, and has been claimed
\* again with attempts 0.
DlqRoundTripWitness ==
    \E j \in DOMAIN jobs :
        /\ dlqd[j] /\ jobs[j].max_retries = 1
        /\ jobs[j].state = "processing" /\ jobs[j].attempts = 0
        /\ jobs[j].last_error = NULL
        /\ \A r \in Retriers : rpc[r] = "idle"

\* C14. A failed job is absorbing: no step of the queue changes its row.
FailedIsAbsorbing ==
    [][\A j \in DOMAIN jobs : jobs[j].state = "failed" => jobs'[j] = jobs[j]]_vars

\* C18. No lease expiry: a job left in processing by a worker that is gone (no
\* running worker is between its claim and its result write) keeps its row, its
\* state and its locked_by in every step.
CrashedJobStaysProcessing ==
    [][\A j \in DOMAIN jobs :
          (jobs[j].state = "processing" /\ Holders(j) = {}) => jobs'[j] = jobs[j]]_vars

\* C13. dlq_retry raises "not found" when no job has the id and "is not in DLQ"
\* when the job is pending, processing, completed or failed; in both cases the call
\* goes no further and the jobs table and the config table are unchanged.
DlqRetryRejects ==
    [][\A r \in Retriers, id \in JobIds :
          DlqRetryRead(r, id) =>
              /\ id \notin DOMAIN jobs =>
                    /\ raised' = "not found"
                    /\ rpc'[r] = "idle" /\ jobs' = jobs /\ config' = config
              /\ (id \in DOMAIN jobs /\ jobs[id].state
                      \in {"pending", "processing", "completed", "failed"}) =>
                    /\ raised' = "is not in DLQ"
                    /\ rpc'[r] = "idle" /\ jobs' = jobs /\ config' = config
      ]_vars

\* A dlq_retry of a failed job has just been rejected.
DlqRetryRejectsWitness ==
    /\ raised = "is not in DLQ"
    /\ "j1" \in DOMAIN jobs /\ jobs["j1"].state = "failed"
    /\ \A r \in Retriers : rpc[r] = "idle"

\* What the claim calls an invalid payload: id or command missing, not a string or
\* empty; max_retries present and a negative number, a non-integer number or a
\* non-numeric value (null and the text of an integer are given the benefit of the
\* doubt).
ClaimInvalid(d) ==
    \/ ~IsDict(d)
    \/ "id" \notin DOMAIN d \/ d.id.kind # "str" \/ d.id.val = ""
    \/ "command" \notin DOMAIN d \/ d.command.kind # "str" \/ d.command.val = ""
    \/ /\ "max_retries" \in DOMAIN d
       /\ \/ d.max_retries.kind = "int" /\ d.max_retries.val < 0
          \/ d.max_retries.kind = "float"
          \/ d.max_retries.kind = "str" /\ d.max_retries.val \notin IntStrings

\* C20. enqueue raises a validation error on every invalid payload and then writes
\* nothing; a successful enqueue inserts a row with state pending, attempts 0,
\* locked_by and last_error unset and available_at = created_at.
EnqueueValidates ==
    [][\A d \in JsonPayloads :
          enqueue_job(d) =>
              /\ ClaimInvalid(d) =>
                    raised' = "ValueError" /\ jobs' = jobs /\ config' = config
              /\ (~ClaimInvalid(d) /\ raised' = NULL /\ jobs' # jobs) =>
                    LET j == job_id(d)
                    IN  /\ j \notin DOMAIN jobs /\ DOMAIN jobs' = DOMAIN jobs \cup {j}
                        /\ jobs'[j].state = "pending"
                        /\ jobs'[j].attempts = 0
                        /\ jobs'[j].locked_by = NULL
                        /\ jobs'[j].last_error = NULL
                        /\ jobs'[j].available_at = jobs'[j].created_at
      ]_vars

\* The stop flag is set.
StopRequested == config["workers:stop"] = "1"

\* C15. A worker started when workers:stop was "1", by run_worker or by "worker
\* start", leaves its first stop check for the exit and not for a claim.
StopBeforeStart ==
    [][\A w \in Workers : armed[w] => pc'[w] \in {"poll", "down"}]_vars

\* C15, amended.  A worker started when workers:stop was "1", and that still finds
\* it at "1" when it reads it, exits without claiming; "worker start" clears the
\* flag before it spawns its workers.
StopBeforeDirectRun ==
    [][ /\ \A w \in Workers :
              (armed[w] /\ StopRequested) =>
                  /\ pc'[w] \in {"poll", "down"}
                  /\ pc'[w] = "down" => jobs' = jobs
        /\ \A ws \in SUBSET Workers :
              start_worker_processes(ws) =>
                  /\ ~StopRequested'
                  /\ \A w \in ws : pc'[w] = "poll"
      ]_vars

\* A worker has been started while the flag was "1" and a job waits in the queue.
StopBeforeDirectRunWitness ==
    /\ StopRequested
    /\ \E w \in Workers : armed[w] /\ pc[w] = "poll"
    /\ PendingAt(now) # {}

\* The jobs a worker has claimed and not yet written a result for.
Unfinished(w) ==
    {j \in DOMAIN jobs : jobs[j].state = "processing" /\ jobs[j].locked_by = w}

\* C16. Cooperative stop: once the flag is set (and not cleared) every worker loop
\* eventually exits, and a loop that has exited has left no job in processing: a
\* worker executing a command when the flag is set writes its result first.
CooperativeStop ==
    /\ \A w \in Workers : StopRequested ~> (pc[w] = "down")
    /\ \A w \in Workers : (StopRequested /\ pc[w] = "exec") ~> (pc[w] = "down" /\ Unfinished(w) = {})
    /\ [](\A w \in Workers : pc[w] = "down" => Unfinished(w) = {})

\* The flag is set while w1 executes a command and after w2 has exited.
CooperativeStopWitness ==
    /\ StopRequested
    /\ pc["w1"] = "exec" /\ Unfinished("w1") # {}
    /\ pc["w2"] = "down"

\* C17. Whatever interrupts a worker loop, no job stays in processing for ever.
InterruptLeavesNoProcessing ==
    \A j \in JobIds :
        (j \in DOMAIN jobs /\ jobs[j].state = "processing")
            ~> (j \in DOMAIN jobs /\ jobs[j].state # "processing")

\* C19. No error ends a worker loop: a loop is left only at a stop check that read
\* the flag at "1", and a worker that claimed a job goes on to its next iteration
\* with that job out of processing.
ErrorsAreAbsorbed ==
    [][\A w \in Workers :
          /\ (pc[w] # "down" /\ pc'[w] = "down") => (pc[w] = "poll" /\ StopRequested)
          /\ (pc[w] = "exec" /\ pc'[w] # "exec") =>
                (pc'[w] = "poll" /\ jobs'[row[w].id].state # "processing")
      ]_vars

\* C21. An enqueue of a well-formed payload whose id is already in the store,
\* whatever the state of that job, raises the duplicate-id error and leaves every
\* row as it was.
DuplicateIdRejected ==
    [][\A d \in Defaulted :
          (job_id(d) \in DOMAIN jobs /\ enqueue_job(d)) =>
              /\ raised' = "IntegrityError"
              /\ jobs' = jobs
      ]_vars

\* A second enqueue of j1 has just been rejected, j1 being dead with attempts 1.
DuplicateIdRejectedWitness ==
    /\ raised = "IntegrityError"
    /\ "j1" \in DOMAIN jobs
    /\ jobs["j1"].state = "dead" /\ jobs["j1"].attempts = 1

\* C22. config set stores the value: after config set(key, value) the store's
\* get_config(key) gives value, and config get(key) prints the stored value.
ConfigSetStores ==
    [][/\ \A k \in Tunables, v \in TunableValues :
              config_set(k, v) => get_config(k, NULL)' = v
       /\ \A k \in Tunables :
              config_get(k) => echoed'.value = get_config(k, NULL)
      ]_vars

\* C23. A job's max_retries is fixed at enqueue: a payload that leaves it out gets
\* the integer default_max_retries holds in the store at that moment, and no later
\* step (a change of default_max_retries, a claim, a result write, a dlq_retry)
\* changes the max_retries of a job.
MaxRetriesFrozen ==
    [][/\ \A j \in DOMAIN jobs : jobs'[j].max_retries = jobs[j].max_retries
       /\ \A d \in Defaulted :
              (/\ job_id(d) \notin DOMAIN jobs
               /\ config["default_max_retries"] \in IntStrings
               /\ enqueue_job(d))
              => jobs'[job_id(d)].max_retries = int(config["default_max_retries"])
      ]_vars

\* j1 was enqueued while default_max_retries was "0", failed, went through
\* dlq_retry and failed again, and default_max_retries is "2" by now.
MaxRetriesFrozenWitness ==
    /\ "j1" \in DOMAIN jobs
    /\ jobs["j1"].max_retries = 0
    /\ config["default_max_retries"] = "2"
    /\ dlqd["j1"]
    /\ jobs["j1"].state = "dead" /\ jobs["j1"].attempts = 1

\* Worker w writes the result of an execution that exited 0.
SuccessWritten(w) ==
    /\ pc[w] = "exec" /\ pc'[w] = "poll"
    /\ jobs'[row[w].id].state = "completed"

\* C24. The write of a successful execution takes the job from processing to
\* completed, clears last_error and leaves attempts as it was, which is the number
\* of the job's failed executions: 0 when the first execution succeeds, k after k
\* failures.
SuccessKeepsAttempts ==
    [][\A w \in Workers :
          SuccessWritten(w) =>
              /\ jobs[row[w].id].state = "processing"
              /\ jobs'[row[w].id].last_error = NULL
              /\ jobs'[row[w].id].attempts = jobs[row[w].id].attempts
              /\ jobs'[row[w].id].attempts = fails[row[w].id]
      ]_vars

\* claim_job returns to worker w, whose UPDATE transitioned a row.
ClaimReturns(w) == pc[w] = "readback" /\ pc'[w] \in {"poll", "exec"}

\* C25. When claim_job's UPDATE transitioned a row, claim_job returns that row:
\* not None, and not the row of another job.
ClaimReturnsClaimedRow ==
    [][\A w \in Workers :
          ClaimReturns(w) => (pc'[w] = "exec" /\ row'[w].id = won[w])
      ]_vars

\* C26. In every reachable state a job's attempts is the number of its executions
\* that ended in failure since it was enqueued or last reset by dlq_retry.
AttemptsCountFailures ==
    \A j \in DOMAIN jobs : jobs[j].attempts = fails[j]

====
